---- MODULE Spec2Model ----
(***************************************************************************)
(* Model of src/src/index.ts, which holds the two entry points of the     *)
(* repository one after the other:                                         *)
(*   variant "A" (lines 1-176):   publishes the wallet configuration with  *)
(*       stateProvider.saveWallet inside a try/catch;                      *)
(*   variant "B" (lines 178-321): publishes it through                     *)
(*       Wallet.fromConfiguration, awaited without a try/catch.            *)
(* A run is the body of main() followed by the top-level .catch handler or *)
(* by the normal end of the process.  Every awaited call is two steps: the *)
(* program issues it, and the collaborator resolves or rejects it; the     *)
(* resolving step also runs the synchronous code up to the next call.      *)
(* Console output and issued calls are kept, in order, in trace.           *)
(***************************************************************************)
EXTENDS Integers, Sequences, FiniteSets, TLC

(* ------------------------------ bounds -------------------------------- *)

\* Status polls the history variables can tell apart.
MaxPolls == 3

\* Room of the trace: the straight-line part of a run plus the polling loop.
MaxTrace == 24 + 3 * MaxPolls

(* ------------------------- program constants -------------------------- *)

\* weight: 1n of the single signer leaf.
SignerWeight == 1

\* threshold: 1n of the wallet configuration.
Threshold == 1

\* checkpoint: 0n of the wallet configuration.
Checkpoint == 0

\* The names read by requireEnv, in the order main() reads them.
EnvOrder ==
  << "PROJECT_ACCESS_KEY", "PRIVATE_KEY", "CHAIN_ID", "TARGET_ADDRESS",
     "NODE_URL", "RELAYER_URL", "EXPLORER_URL" >>

EnvNames == { EnvOrder[i] : i \in 1..Len(EnvOrder) }

\* process.env[name] of a variable that is not set.
Undefined == "<undefined>"

\* The environments a run may start in: every variable is unset, empty or
\* set; CHAIN_ID may also be set to text that is no number, and PRIVATE_KEY
\* to text that is no key.
Environments ==
  [ PROJECT_ACCESS_KEY : {Undefined, "", "AQAAAAkey"},
    PRIVATE_KEY        : {Undefined, "", "0xkey", "not-a-key"},
    CHAIN_ID           : {Undefined, "", "421614", "testnet"},
    TARGET_ADDRESS     : {Undefined, "", "0xTarget"},
    NODE_URL           : {Undefined, "", "https://nodes.sequence.app/arbitrum-sepolia"},
    RELAYER_URL        : {Undefined, "", "https://arbitrum-sepolia-relayer.sequence.app"},
    EXPLORER_URL       : {Undefined, "", "https://sepolia.arbiscan.io"} ]

\* What the collaborators may answer.
OpHashes == {"0xop1", "0xop2"}
TxHashes == {"0xabc", "0xdef"}
Reasons == {"insufficient gas", "execution reverted"}
Nonces == {0, 1}

\* The statuses of the relayer that the loop treats as not terminal.
NonTerminalStatuses == {"pending", "unknown"}
TerminalStatuses == {"confirmed", "failed"}

NoStatus == [status |-> "none", transactionHash |-> "", reason |-> ""]

StatusResponses ==
  { [status |-> s, transactionHash |-> "", reason |-> ""] : s \in NonTerminalStatuses }
  \cup { [status |-> "confirmed", transactionHash |-> h, reason |-> ""] : h \in TxHashes }
  \cup { [status |-> "failed", transactionHash |-> "", reason |-> r] : r \in Reasons }

(* ------------------------------ state --------------------------------- *)

VARIABLES
  variant,     \* "A" or "B": which entry point runs
  env,         \* process.env
  loaded,      \* the values requireEnv has returned so far
  envIdx,      \* the next variable main() reads
  pc,          \* where main() is
  trace,       \* console output and issued calls, in order
  inflight,    \* the network calls issued and not yet answered
  timer,       \* TRUE while the setTimeout of wait() is pending
  attempt,     \* the transaction attempt: its state and what it carries
  polls,       \* relayer.status calls issued
  responses,   \* the answers of relayer.status, in order
  lastStatus,  \* the latest answer of relayer.status
  failures,    \* the calls that threw, in order
  err,         \* the rejection of main(): "" while there is none
  exitCode     \* -1 while the process runs, then its exit status

vars ==
  << variant, env, loaded, envIdx, pc, trace, inflight, timer, attempt, polls,
     responses, lastStatus, failures, err, exitCode >>

(* --------------------------- trace events ----------------------------- *)

Log(s) == [k |-> "log", text |-> s]
Warn(s) == [k |-> "warn", text |-> s]
Error(s) == [k |-> "error", text |-> s]
Stdout(s) == [k |-> "stdout", text |-> s]
Call(name) == [k |-> "call", text |-> name]

\* The trace with evs appended; events past MaxTrace are not kept.
Record(tr, evs) ==
  LET full == tr \o evs
  IN  IF Len(full) <= MaxTrace THEN full ELSE SubSeq(full, 1, MaxTrace)

(* ------------------------- pure helpers ------------------------------- *)

NaN == [nan |-> TRUE, n |-> 0]

\* parseInt(text, 10) on the values CHAIN_ID takes.
ParseInt(text) ==
  CASE text = "421614" -> [nan |-> FALSE, n |-> 421614]
    [] OTHER -> NaN

\* `${chainId}`
NumberText(c) == IF c.nan THEN "NaN" ELSE ToString(c.n)

\* A test that lets the empty string through: val === undefined.
FalsyUndefinedOnly(val) == val = Undefined

\* !val of requireEnv: undefined and the empty string are falsy.
Falsy(val) == val = Undefined \/ val = ""

MissingMessage(name) == "Missing environment variable: " \o name

\* Whether new Signers.Pk.Pk(privateKey) accepts the key.
PkValid(privateKey) == privateKey = "0xkey"

\* signer.address of new Signers.Pk.Pk(privateKey).
PkAddress(privateKey) == "0xSigner(" \o privateKey \o ")"

Topology(signerAddress) ==
  [type |-> "signer", address |-> signerAddress, weight |-> SignerWeight]

WalletConfig(signerAddress) ==
  [threshold |-> Threshold, checkpoint |-> Checkpoint,
   topology |-> Topology(signerAddress)]

ContextRc4 == "Rc4"

\* SequenceAddress.from(walletConfig, context): a function of its arguments.
SequenceAddressFrom(config, context) ==
  "0xWallet(" \o config.topology.address \o "," \o context \o ")"

chainId == ParseInt(loaded["CHAIN_ID"])
signerAddress == PkAddress(loaded["PRIVATE_KEY"])
walletConfig == WalletConfig(signerAddress)
walletAddress == SequenceAddressFrom(walletConfig, ContextRc4)
targetAddress == loaded["TARGET_ADDRESS"]
explorerUrl == loaded["EXPLORER_URL"]

\* const tx: Payload.Call
Tx ==
  [to |-> targetAddress, value |-> 0, data |-> "0x", gasLimit |-> 0,
   delegateCall |-> FALSE, onlyFallback |-> FALSE, behaviorOnError |-> "revert"]

NoAttempt ==
  [state |-> "Unprepared", nonce |-> 0, calls |-> <<>>, signatures |-> <<>>,
   to |-> "", data |-> "", opHash |-> ""]

(* ------------------------------ Init ---------------------------------- *)

Init ==
  /\ variant \in {"A", "B"}
  /\ env \in Environments
  /\ loaded = [n \in EnvNames |-> ""]
  /\ envIdx = 1
  /\ pc = "requireEnv"
  /\ trace = <<>>
  /\ inflight = {}
  /\ timer = FALSE
  /\ attempt = NoAttempt
  /\ polls = 0
  /\ responses = <<>>
  /\ lastStatus = NoStatus
  /\ failures = <<>>
  /\ err = ""
  /\ exitCode = -1

(* ------------------------ 1. configuration ---------------------------- *)

\* What a throw inside main() does: main() rejects with the error.
Reject(message) ==
  /\ pc' = "rejected"
  /\ err' = message

\* requireEnv(name) returning: the value is kept and main() reads on.
RequireEnvOk ==
  /\ pc = "requireEnv"
  /\ ~Falsy(env[EnvOrder[envIdx]])
  /\ loaded' = [loaded EXCEPT ![EnvOrder[envIdx]] = env[EnvOrder[envIdx]]]
  /\ IF envIdx < Len(EnvOrder)
       THEN envIdx' = envIdx + 1 /\ pc' = "requireEnv"
       ELSE envIdx' = envIdx /\ pc' = "setup"
  /\ UNCHANGED << variant, env, trace, inflight, timer, attempt, polls,
                  responses, lastStatus, failures, err, exitCode >>

\* requireEnv(name) throwing: main() rejects before anything else runs.
RequireEnvThrow ==
  /\ pc = "requireEnv"
  /\ Falsy(env[EnvOrder[envIdx]])
  /\ Reject(MissingMessage(EnvOrder[envIdx]))
  /\ UNCHANGED << variant, env, loaded, envIdx, trace, inflight, timer, attempt,
                  polls, responses, lastStatus, failures, exitCode >>

(* ------------------- 2./3. signer, wallet, services ------------------- *)

BannerA == "--- Sequence V3 Transaction Example ---"
BannerB == "--- Sequence V3 Backend Transaction Example ---"
Banner == IF variant = "A" THEN BannerA ELSE BannerB

WalletAddressLine == "Smart Wallet Address: " \o walletAddress

\* What a rejected call is reported as.
ErrorOf(call) == call \o " rejected"

\* The synchronous code from the banner to the first awaited call.  Variant
\* A derives and prints the wallet address here; variant B prints it only
\* after Wallet.fromConfiguration has returned.
Setup ==
  /\ pc = "setup"
  /\ PkValid(loaded["PRIVATE_KEY"])
  /\ trace' = Record(trace,
       << Log(Banner), Log("Chain ID: " \o NumberText(chainId)),
          Log("Signer Address (EOA): " \o signerAddress) >>
       \o (IF variant = "A"
             THEN << Log(WalletAddressLine),
                     Log("Target Address:       " \o targetAddress) >>
             ELSE << >>))
  /\ pc' = IF variant = "A" THEN "saveWallet" ELSE "fromConfiguration"
  /\ UNCHANGED << variant, env, loaded, envIdx, inflight, timer, attempt, polls,
                  responses, lastStatus, failures, err, exitCode >>

\* new Signers.Pk.Pk(privateKey) throwing on a key it cannot use.
SetupThrow ==
  /\ pc = "setup"
  /\ ~PkValid(loaded["PRIVATE_KEY"])
  /\ trace' = Record(trace,
       << Log(Banner), Log("Chain ID: " \o NumberText(chainId)) >>)
  /\ failures' = Append(failures, "Pk")
  /\ Reject(ErrorOf("Pk"))
  /\ UNCHANGED << variant, env, loaded, envIdx, inflight, timer, attempt, polls,
                  responses, lastStatus, exitCode >>

(* ---------------------- 4. publish configuration ---------------------- *)

\* Issuing a network call: it is outstanding until answered.
Issue(call, next) ==
  /\ inflight' = inflight \cup {call}
  /\ trace' = Record(trace, << Call(call) >>)
  /\ pc' = next

\* Variant A: await stateProvider.saveWallet(walletConfig, context)
SaveWalletCall ==
  /\ pc = "saveWallet"
  /\ Issue("saveWallet", "saveWallet_await")
  /\ UNCHANGED << variant, env, loaded, envIdx, timer, attempt, polls,
                  responses, lastStatus, failures, err, exitCode >>

SaveWalletReturn ==
  /\ pc = "saveWallet_await"
  /\ "saveWallet" \in inflight
  /\ inflight' = inflight \ {"saveWallet"}
  /\ trace' = Record(trace,
       << Log("Wallet configuration published to directory."),
          Log("Preparing transaction...") >>)
  /\ pc' = "prepareTransaction"
  /\ UNCHANGED << variant, env, loaded, envIdx, timer, attempt, polls,
                  responses, lastStatus, failures, err, exitCode >>

PublishWarning ==
  "Note: Could not publish config (might already exist). Continuing..."

\* Variant A: the catch block around saveWallet warns and goes on.
SaveWalletThrow ==
  /\ pc = "saveWallet_await"
  /\ "saveWallet" \in inflight
  /\ inflight' = inflight \ {"saveWallet"}
  /\ failures' = Append(failures, "saveWallet")
  /\ trace' = Record(trace,
       << Warn(PublishWarning), Log("Preparing transaction...") >>)
  /\ pc' = "prepareTransaction"
  /\ UNCHANGED << variant, env, loaded, envIdx, timer, attempt, polls,
                  responses, lastStatus, err, exitCode >>

\* Variant B: await Wallet.fromConfiguration(walletConfig, {context, stateProvider}),
\* which publishes the configuration through the state provider.
FromConfigurationCall ==
  /\ pc = "fromConfiguration"
  /\ Issue("fromConfiguration", "fromConfiguration_await")
  /\ UNCHANGED << variant, env, loaded, envIdx, timer, attempt, polls,
                  responses, lastStatus, failures, err, exitCode >>

FromConfigurationReturn ==
  /\ pc = "fromConfiguration_await"
  /\ "fromConfiguration" \in inflight
  /\ inflight' = inflight \ {"fromConfiguration"}
  /\ trace' = Record(trace,
       << Log(WalletAddressLine), Log("Wallet configuration synced."),
          Log("Preparing transaction...") >>)
  /\ pc' = "prepareTransaction"
  /\ UNCHANGED << variant, env, loaded, envIdx, timer, attempt, polls,
                  responses, lastStatus, failures, err, exitCode >>

\* Variant B: nothing catches a publish that throws; main() rejects.
FromConfigurationThrow ==
  /\ pc = "fromConfiguration_await"
  /\ "fromConfiguration" \in inflight
  /\ inflight' = inflight \ {"fromConfiguration"}
  /\ failures' = Append(failures, "fromConfiguration")
  /\ Reject(ErrorOf("fromConfiguration"))
  /\ UNCHANGED << variant, env, loaded, envIdx, trace, timer, attempt, polls,
                  responses, lastStatus, exitCode >>

(* ----------------------- 5./6. sign and relay -------------------------- *)

\* await wallet.prepareTransaction(provider, [tx]): fetches the nonce.
PrepareTransactionCall ==
  /\ pc = "prepareTransaction"
  /\ Issue("prepareTransaction", "prepareTransaction_await")
  /\ UNCHANGED << variant, env, loaded, envIdx, timer, attempt, polls,
                  responses, lastStatus, failures, err, exitCode >>

PrepareTransactionReturn(nonce) ==
  /\ pc = "prepareTransaction_await"
  /\ "prepareTransaction" \in inflight
  /\ inflight' = inflight \ {"prepareTransaction"}
  /\ attempt' = [attempt EXCEPT !.state = "Prepared", !.nonce = nonce,
                                !.calls = << Tx >>]
  /\ pc' = "sign"
  /\ UNCHANGED << variant, env, loaded, envIdx, trace, timer, polls,
                  responses, lastStatus, failures, err, exitCode >>

\* An awaited call of the pipeline rejecting: nothing catches it.
Throw(call) ==
  /\ failures' = Append(failures, call)
  /\ Reject(ErrorOf(call))

PrepareTransactionThrow ==
  /\ pc = "prepareTransaction_await"
  /\ "prepareTransaction" \in inflight
  /\ inflight' = inflight \ {"prepareTransaction"}
  /\ Throw("prepareTransaction")
  /\ UNCHANGED << variant, env, loaded, envIdx, trace, timer, attempt, polls,
                  responses, lastStatus, exitCode >>

\* await signer.sign(walletAddress, chainId, envelope.payload): the signer is
\* local, so no network call is outstanding while it signs.
SignCall ==
  /\ pc = "sign"
  /\ trace' = Record(trace, << Call("sign") >>)
  /\ pc' = "sign_await"
  /\ UNCHANGED << variant, env, loaded, envIdx, inflight, timer, attempt, polls,
                  responses, lastStatus, failures, err, exitCode >>

\* The signature binds the payload to the wallet and the chain.
Signature(signer, wallet, chain, nonce, calls) ==
  [signer |-> signer, wallet |-> wallet, chain |-> chain, nonce |-> nonce,
   calls |-> calls]

\* Envelope.toSigned(envelope, signatures): the envelope with them attached.
ToSigned(envelope, signatures) ==
  [envelope EXCEPT !.state = "Signed", !.signatures = signatures]

\* sign resolves; Envelope.toSigned and the log line follow synchronously.
SignReturn ==
  /\ pc = "sign_await"
  /\ attempt' = ToSigned(attempt,
       << [address |-> signerAddress,
           signature |-> Signature(signerAddress, walletAddress, chainId,
                                   attempt.nonce, attempt.calls)] >>)
  /\ trace' = Record(trace,
       << Call("toSigned"), Log("Relaying transaction...") >>)
  /\ pc' = "buildTransaction"
  /\ UNCHANGED << variant, env, loaded, envIdx, inflight, timer, polls,
                  responses, lastStatus, failures, err, exitCode >>

SignThrow ==
  /\ pc = "sign_await"
  /\ Throw("sign")
  /\ UNCHANGED << variant, env, loaded, envIdx, trace, inflight, timer, attempt,
                  polls, responses, lastStatus, exitCode >>

\* await wallet.buildTransaction(provider, signedEnvelope)
BuildTransactionCall ==
  /\ pc = "buildTransaction"
  /\ Issue("buildTransaction", "buildTransaction_await")
  /\ UNCHANGED << variant, env, loaded, envIdx, timer, attempt, polls,
                  responses, lastStatus, failures, err, exitCode >>

BuildTransactionReturn ==
  /\ pc = "buildTransaction_await"
  /\ "buildTransaction" \in inflight
  /\ inflight' = inflight \ {"buildTransaction"}
  /\ attempt' = [attempt EXCEPT !.state = "Built", !.to = walletAddress,
                                !.data = "0xexecute"]
  /\ pc' = "relay"
  /\ UNCHANGED << variant, env, loaded, envIdx, trace, timer, polls,
                  responses, lastStatus, failures, err, exitCode >>

BuildTransactionThrow ==
  /\ pc = "buildTransaction_await"
  /\ "buildTransaction" \in inflight
  /\ inflight' = inflight \ {"buildTransaction"}
  /\ Throw("buildTransaction")
  /\ UNCHANGED << variant, env, loaded, envIdx, trace, timer, attempt, polls,
                  responses, lastStatus, exitCode >>

\* await relayer.relay(to, data, chainId)
RelayCall ==
  /\ pc = "relay"
  /\ Issue("relay", "relay_await")
  /\ UNCHANGED << variant, env, loaded, envIdx, timer, attempt, polls,
                  responses, lastStatus, failures, err, exitCode >>

SentLine(opHash) == "Transaction Sent! OpHash: " \o opHash

RelayReturn(opHash) ==
  /\ pc = "relay_await"
  /\ "relay" \in inflight
  /\ inflight' = inflight \ {"relay"}
  /\ attempt' = [attempt EXCEPT !.state = "Submitted", !.opHash = opHash]
  /\ trace' = Record(trace,
       << Log(SentLine(opHash)), Log("Waiting for confirmation...") >>)
  /\ pc' = "status"
  /\ UNCHANGED << variant, env, loaded, envIdx, timer, polls, responses,
                  lastStatus, failures, err, exitCode >>

\* A relay that is submitted again when it throws.
RelayThrowResubmits ==
  /\ pc = "relay_await"
  /\ "relay" \in inflight
  /\ inflight' = inflight \ {"relay"}
  /\ failures' = Append(failures, "relay")
  /\ pc' = "relay"
  /\ UNCHANGED << variant, env, loaded, envIdx, trace, timer, attempt, polls,
                  responses, lastStatus, err, exitCode >>

RelayThrow ==
  /\ pc = "relay_await"
  /\ "relay" \in inflight
  /\ inflight' = inflight \ {"relay"}
  /\ Throw("relay")
  /\ UNCHANGED << variant, env, loaded, envIdx, trace, timer, attempt, polls,
                  responses, lastStatus, exitCode >>

(* ---------------------- 7. wait for confirmation ----------------------- *)

\* const status = await relayer.status(opHash, chainId)
StatusCall ==
  /\ pc = "status"
  /\ Issue("status", "status_await")
  /\ polls' = IF polls < MaxPolls THEN polls + 1 ELSE polls
  /\ UNCHANGED << variant, env, loaded, envIdx, timer, attempt, responses,
                  lastStatus, failures, err, exitCode >>

\* relayer.status resolving with answer.
Answered(answer) ==
  /\ pc = "status_await"
  /\ "status" \in inflight
  /\ inflight' = inflight \ {"status"}
  /\ responses' = IF Len(responses) < MaxPolls
                    THEN Append(responses, answer)
                    ELSE responses
  /\ lastStatus' = answer

ConfirmedBanner == "Transaction Confirmed!"
TxHashLine(hash) == "Tx Hash:  " \o hash
\* The explorer link without its /tx/ segment.
ExplorerLineNoTx(url, hash) == "Explorer: " \o url \o "/" \o hash
ExplorerLine(url, hash) == "Explorer: " \o url \o "/tx/" \o hash
\* The failure line without status.reason.
FailedLineNoReason(reason) == "Transaction Failed: "
FailedLine(reason) == "Transaction Failed: " \o reason

\* status.status === "confirmed": three lines, then break.
StatusConfirmed(hash) ==
  /\ Answered([status |-> "confirmed", transactionHash |-> hash, reason |-> ""])
  /\ trace' = Record(trace,
       << Log(ConfirmedBanner), Log(TxHashLine(hash)),
          Log(ExplorerLine(explorerUrl, hash)) >>)
  /\ pc' = "resolved"
  /\ UNCHANGED << variant, env, loaded, envIdx, timer, attempt, polls,
                  failures, err, exitCode >>

\* The failed branch without its break: the loop waits and polls again.
StatusFailedNoBreak(reason) ==
  /\ Answered([status |-> "failed", transactionHash |-> "", reason |-> reason])
  /\ trace' = Record(trace, << Error(FailedLine(reason)) >>)
  /\ timer' = TRUE
  /\ pc' = "wait"
  /\ UNCHANGED << variant, env, loaded, envIdx, attempt, polls, failures, err,
                  exitCode >>

\* The failed branch ending the process itself with process.exit(1).
StatusFailedExits(reason) ==
  /\ Answered([status |-> "failed", transactionHash |-> "", reason |-> reason])
  /\ trace' = Record(trace, << Error(FailedLine(reason)) >>)
  /\ exitCode' = 1
  /\ pc' = "exited"
  /\ UNCHANGED << variant, env, loaded, envIdx, timer, attempt, polls,
                  failures, err >>

\* status.status === "failed": the reason on stderr, then break.
StatusFailed(reason) ==
  /\ Answered([status |-> "failed", transactionHash |-> "", reason |-> reason])
  /\ trace' = Record(trace, << Error(FailedLine(reason)) >>)
  /\ pc' = "resolved"
  /\ UNCHANGED << variant, env, loaded, envIdx, timer, attempt, polls,
                  failures, err, exitCode >>

\* wait(1500) called without await: the loop polls again at once, the
\* timer still pending.
StatusOtherNoAwait(status) ==
  /\ Answered([status |-> status, transactionHash |-> "", reason |-> ""])
  /\ trace' = Record(trace, << Stdout(".") >>)
  /\ timer' = TRUE
  /\ pc' = "status"
  /\ UNCHANGED << variant, env, loaded, envIdx, attempt, polls, failures, err,
                  exitCode >>

\* A loop with a maximum attempt count of two: it gives up and returns.
StatusOtherGivesUp(status) ==
  /\ Answered([status |-> status, transactionHash |-> "", reason |-> ""])
  /\ trace' = Record(trace, << Stdout(".") >>)
  /\ IF polls >= 2
       THEN timer' = timer /\ pc' = "resolved"
       ELSE timer' = TRUE /\ pc' = "wait"
  /\ UNCHANGED << variant, env, loaded, envIdx, attempt, polls, failures, err,
                  exitCode >>

\* Any other status: a dot, then await wait(1500).
StatusOther(status) ==
  /\ Answered([status |-> status, transactionHash |-> "", reason |-> ""])
  /\ trace' = Record(trace, << Stdout(".") >>)
  /\ timer' = TRUE
  /\ pc' = "wait"
  /\ UNCHANGED << variant, env, loaded, envIdx, attempt, polls, failures, err,
                  exitCode >>

\* A status call whose error is swallowed: the loop waits and polls again.
StatusThrowRetries ==
  /\ pc = "status_await"
  /\ "status" \in inflight
  /\ inflight' = inflight \ {"status"}
  /\ failures' = Append(failures, "status")
  /\ timer' = TRUE
  /\ pc' = "wait"
  /\ UNCHANGED << variant, env, loaded, envIdx, trace, attempt, polls,
                  responses, lastStatus, err, exitCode >>

StatusThrow ==
  /\ pc = "status_await"
  /\ "status" \in inflight
  /\ inflight' = inflight \ {"status"}
  /\ Throw("status")
  /\ UNCHANGED << variant, env, loaded, envIdx, trace, timer, attempt, polls,
                  responses, lastStatus, exitCode >>

\* The timer of wait(1500) fires and the loop starts over.
WaitDone ==
  /\ pc = "wait"
  /\ timer
  /\ timer' = FALSE
  /\ pc' = "status"
  /\ UNCHANGED << variant, env, loaded, envIdx, trace, inflight, attempt, polls,
                  responses, lastStatus, failures, err, exitCode >>

(* --------------------------- end of the run --------------------------- *)

\* main() resolved: nothing is pending and the process ends by itself.
MainResolved ==
  /\ pc = "resolved"
  /\ exitCode' = 0
  /\ pc' = "exited"
  /\ UNCHANGED << variant, env, loaded, envIdx, trace, inflight, timer, attempt,
                  polls, responses, lastStatus, failures, err >>

\* main().catch: console.error("Error:", err); process.exit(1)
CatchHandler ==
  /\ pc = "rejected"
  /\ trace' = Record(trace, << Error("Error: " \o err) >>)
  /\ exitCode' = 1
  /\ pc' = "exited"
  /\ UNCHANGED << variant, env, loaded, envIdx, inflight, timer, attempt, polls,
                  responses, lastStatus, failures, err >>

(* --------------------------- specifications --------------------------- *)

\* The steps the program takes by itself once it may.
ProgramStep ==
  \/ RequireEnvOk
  \/ RequireEnvThrow
  \/ Setup
  \/ SetupThrow
  \/ SaveWalletCall
  \/ FromConfigurationCall
  \/ PrepareTransactionCall
  \/ SignCall
  \/ BuildTransactionCall
  \/ RelayCall
  \/ StatusCall
  \/ WaitDone
  \/ MainResolved
  \/ CatchHandler

\* The answers of the collaborators, but for a status that is not terminal.
CollaboratorStep ==
  \/ SaveWalletReturn
  \/ SaveWalletThrow
  \/ FromConfigurationReturn
  \/ FromConfigurationThrow
  \/ \E nonce \in Nonces : PrepareTransactionReturn(nonce)
  \/ PrepareTransactionThrow
  \/ SignReturn
  \/ SignThrow
  \/ BuildTransactionReturn
  \/ BuildTransactionThrow
  \/ \E opHash \in OpHashes : RelayReturn(opHash)
  \/ RelayThrow
  \/ \E hash \in TxHashes : StatusConfirmed(hash)
  \/ \E reason \in Reasons : StatusFailed(reason)
  \/ StatusThrow

\* A relayer that leaves the transaction pending for at most MaxPolls - 1
\* polls: every history is told apart.
StatusOtherBounded ==
  \E status \in NonTerminalStatuses : polls < MaxPolls /\ StatusOther(status)

\* A relayer that may leave the transaction pending forever.
StatusOtherUnbounded ==
  \E status \in NonTerminalStatuses : StatusOther(status)

Next == ProgramStep \/ CollaboratorStep \/ StatusOtherBounded

Spec == Init /\ [][Next]_vars

NextLive == ProgramStep \/ CollaboratorStep \/ StatusOtherUnbounded

\* The event loop runs every continuation and fires every timer; nothing is
\* assumed of the collaborators, who may never answer.
LiveSpec == Init /\ [][NextLive]_vars /\ WF_vars(ProgramStep)

(* ------------------------ reading the trace --------------------------- *)

Indices(ev) == { i \in 1..Len(trace) : trace[i] = ev }
Count(ev) == Cardinality(Indices(ev))
CallIndices == { i \in 1..Len(trace) : trace[i].k = "call" }
Printed(text) == \E i \in 1..Len(trace) : trace[i].k # "call" /\ trace[i].text = text
Halted == pc = "exited"

\* requireEnv's test, stated on the environment: absent or empty.
AbsentOrEmpty(name) == env[name] = Undefined \/ env[name] = ""

(* ------------------------------- C1 ----------------------------------- *)

OnlyMissing(name) ==
  /\ AbsentOrEmpty(name)
  /\ \A other \in EnvNames \ {name} : ~AbsentOrEmpty(other)

\* C1: when exactly one of the seven required variables is absent or empty,
\* the run never leaves the configuration reads except by rejecting with the
\* message that names that variable, it exits with status 1 having printed
\* that error and nothing else, and no call has been issued or is outstanding
\* in any state of the run.
C1_MissingVariableIsFatal ==
  \A name \in EnvNames :
    OnlyMissing(name) =>
      /\ CallIndices = {}
      /\ inflight = {}
      /\ pc \in {"requireEnv", "rejected", "exited"}
      /\ pc = "requireEnv" => err = ""
      /\ pc \in {"rejected", "exited"} =>
           err = "Missing environment variable: " \o name
      /\ pc = "exited" =>
           /\ exitCode = 1
           /\ trace = << Error("Error: Missing environment variable: " \o name) >>

\* The last variable read is empty, the others are set, and the run has ended.
C1_Witness ==
  /\ OnlyMissing("EXPLORER_URL")
  /\ env["EXPLORER_URL"] = ""
  /\ Halted

(* ------------------------------- C2 ----------------------------------- *)

PublishThrew ==
  \E i \in 1..Len(failures) : failures[i] \in {"saveWallet", "fromConfiguration"}

\* C2: a directory publish that throws is logged as a warning and is never
\* what main() rejects with, whichever entry point runs; a run that exits
\* with status 1 after it has failed at some later call.
C2_PublishFailureIsNotFatal ==
  PublishThrew =>
    /\ Printed(PublishWarning)
    /\ err \notin {ErrorOf("saveWallet"), ErrorOf("fromConfiguration")}
    /\ exitCode = 1 => Len(failures) > 1

(* ------------------------------- C3 ----------------------------------- *)

TerminalSeen == lastStatus.status \in {"confirmed", "failed"}
NonTerminalSeen == lastStatus.status \notin {"none", "confirmed", "failed"}

\* Once a terminal status has been answered the loop is left: main() has
\* returned, no status call is outstanding and no wait is pending.
LoopLeftAtTerminal ==
  TerminalSeen =>
    /\ pc \in {"resolved", "exited"}
    /\ "status" \notin inflight
    /\ ~timer

\* C3: the loop halts at the first confirmed or failed answer (no status
\* call is issued once one has been answered), and an answer that is not
\* terminal puts the loop in its wait, from which another status call always
\* follows.
C3_LoopHaltsAtFirstTerminal ==
  /\ []LoopLeftAtTerminal
  /\ [](pc = "wait" => (NonTerminalSeen /\ timer /\ inflight = {}))
  /\ ((pc = "wait") ~> (pc = "status_await" /\ "status" \in inflight))

\* A run that polled twice: the first answer was not terminal, the second
\* reported a failure, and the run has ended.
C3_Witness ==
  /\ Halted
  /\ Len(responses) = 2
  /\ responses[1].status = "pending"
  /\ responses[2].status = "failed"

(* ------------------------------- C4 ----------------------------------- *)

Pending == [status |-> "pending", transactionHash |-> "", reason |-> ""]
Confirmed(hash) == [status |-> "confirmed", transactionHash |-> hash, reason |-> ""]

\* The relayer answered pending n times and then confirmed with hash, and
\* no collaborator threw.
PendingThenConfirmed(n, hash) ==
  /\ failures = << >>
  /\ Len(responses) = n + 1
  /\ \A i \in 1..n : responses[i] = Pending
  /\ responses[n + 1] = Confirmed(hash)

ExpectedWalletAddress ==
  "0xWallet(0xSigner(" \o env["PRIVATE_KEY"] \o "),Rc4)"

SentIndices ==
  { i \in 1..Len(trace) :
      \E opHash \in OpHashes :
        trace[i] = Log("Transaction Sent! OpHash: " \o opHash) }

\* C4: with a relayer that answers pending n times and then confirmed with
\* hash h, the run prints the derived wallet address once, prints
\* "Transaction Sent!" with the opHash of the relay once and before the first
\* status poll, polls n + 1 times, prints the explorer URL EXPLORER_URL/tx/h
\* last, and stops.
C4_EndToEndConfirmed ==
  \A n \in 0..(MaxPolls - 1), hash \in TxHashes :
    PendingThenConfirmed(n, hash) =>
      /\ Count(Log("Smart Wallet Address: " \o ExpectedWalletAddress)) = 1
      /\ Cardinality(SentIndices) = 1
      /\ Count(Log("Transaction Sent! OpHash: " \o attempt.opHash)) = 1
      /\ \A i \in SentIndices, j \in Indices(Call("status")) : i < j
      /\ Count(Call("status")) = n + 1
      /\ polls = n + 1
      /\ trace[Len(trace)] =
           Log("Explorer: " \o env["EXPLORER_URL"] \o "/tx/" \o hash)
      /\ pc \in {"resolved", "exited"}
      /\ inflight = {}
      /\ ~timer
      /\ Halted => exitCode = 0

\* The scenario of the specification: chain 421614, pending twice, then
\* confirmed with 0xabc, and the run has ended.
C4_Witness ==
  /\ env["CHAIN_ID"] = "421614"
  /\ PendingThenConfirmed(2, "0xabc")
  /\ Halted

(* ------------------------------- C5 ----------------------------------- *)

ConfirmedOutput ==
  { i \in 1..Len(trace) :
      \/ trace[i].text = "Transaction Confirmed!"
      \/ \E hash \in TxHashes :
           \/ trace[i].text = "Tx Hash:  " \o hash
           \/ trace[i].text = "Explorer: " \o env["EXPLORER_URL"] \o "/tx/" \o hash }

FailedOutput ==
  { i \in 1..Len(trace) :
      \/ trace[i].text = "Transaction Failed: "
      \/ \E reason \in Reasons : trace[i].text = "Transaction Failed: " \o reason }

\* C5: a failed answer with reason r makes the run print r, once, on stderr
\* and no confirmation, hash or explorer line; a confirmed answer with hash
\* h makes it print the banner, h and the explorer URL and no failure line;
\* before a terminal answer neither is printed; so at most one of the two
\* banners is ever printed.
C5_OutcomeMatchesStatus ==
  /\ lastStatus.status = "failed" =>
       /\ Count(Error("Transaction Failed: " \o lastStatus.reason)) = 1
       /\ Cardinality(FailedOutput) = 1
       /\ ConfirmedOutput = {}
  /\ lastStatus.status = "confirmed" =>
       /\ Count(Log("Transaction Confirmed!")) = 1
       /\ Count(Log("Tx Hash:  " \o lastStatus.transactionHash)) = 1
       /\ Count(Log("Explorer: " \o env["EXPLORER_URL"] \o "/tx/"
                      \o lastStatus.transactionHash)) = 1
       /\ Cardinality(ConfirmedOutput) = 3
       /\ FailedOutput = {}
  /\ ~TerminalSeen => (ConfirmedOutput = {} /\ FailedOutput = {})

\* The relayer answered failed, insufficient gas, on the very first poll.
C5_Witness ==
  /\ Halted
  /\ polls = 1
  /\ lastStatus = [status |-> "failed", transactionHash |-> "",
                   reason |-> "insufficient gas"]

(* ------------------------------- C6 ----------------------------------- *)

\* A failure nothing in main() catches: a required variable that is absent
\* or empty, or a call that threw outside the try block of variant A.
UncaughtFailure ==
  \/ \E name \in EnvNames : AbsentOrEmpty(name)
  \/ \E i \in 1..Len(failures) : ~(variant = "A" /\ failures[i] = "saveWallet")

\* C6: the process has no exit status while it runs; it ends with status 1
\* exactly when an uncaught failure reached the top-level handler and with
\* status 0 otherwise; a run whose relay status is failed ends with status
\* 0, as a confirmed run does.
C6_ExitStatus ==
  /\ ~Halted => exitCode = -1
  /\ Halted =>
       /\ exitCode \in {0, 1}
       /\ exitCode = 1 <=> UncaughtFailure
       /\ exitCode = 1 <=> Printed("Error: " \o err)
       /\ TerminalSeen => exitCode = 0

\* A run that ended after the relayer reported the transaction failed.
C6_Witness ==
  /\ Halted
  /\ lastStatus.status = "failed"
  /\ exitCode = 0

(* ------------------------------- C7 ----------------------------------- *)

Pipeline ==
  << "prepareTransaction", "sign", "toSigned", "buildTransaction", "relay" >>

AttemptStates == << "Unprepared", "Prepared", "Signed", "Built", "Submitted" >>

Rank(state) == CHOOSE r \in 1..Len(AttemptStates) : AttemptStates[r] = state

\* The state a pipeline step needs the attempt to have reached before it is
\* taken: prepare none, sign and toSigned Prepared, build Signed, relay Built.
Needs(step) ==
  CASE step = "prepareTransaction" -> 1
    [] step = "sign" -> 2
    [] step = "toSigned" -> 2
    [] step = "buildTransaction" -> 3
    [] step = "relay" -> 4

\* The weight of the signatures attached to an envelope, under a topology
\* of one signer leaf.
SignedWeight(signatures, config) ==
  IF \E i \in 1..Len(signatures) : signatures[i].address = config.topology.address
  THEN config.topology.weight
  ELSE 0

\* C7: every step of the pipeline is taken at most once and only after the
\* step before it; a step is only taken when the attempt has reached the
\* state the step needs, so relay only after prepare, sign, toSigned and
\* build have completed; the attached signatures weigh at least the
\* threshold 1; no status poll is issued before relay has returned an opHash.
C7_PipelineOrder ==
  /\ \A k \in 1..Len(Pipeline) :
       /\ Count(Call(Pipeline[k])) <= 1
       /\ \A i \in Indices(Call(Pipeline[k])) :
            /\ Rank(attempt.state) >= Needs(Pipeline[k])
            /\ k > 1 => \E j \in Indices(Call(Pipeline[k - 1])) : j < i
  /\ Rank(attempt.state) >= 2 => Count(Call("prepareTransaction")) = 1
  /\ Rank(attempt.state) >= 3 =>
       /\ Count(Call("toSigned")) = 1
       /\ Len(attempt.signatures) = 1
       /\ SignedWeight(attempt.signatures,
            [threshold |-> 1, checkpoint |-> 0,
             topology |-> [type |-> "signer", weight |-> 1,
                           address |-> "0xSigner(" \o env["PRIVATE_KEY"] \o ")"]]) >= 1
  /\ Rank(attempt.state) >= 4 => Count(Call("buildTransaction")) = 1
  /\ Rank(attempt.state) >= 5 =>
       /\ Count(Call("relay")) = 1
       /\ attempt.opHash \in OpHashes
       /\ "relay" \notin inflight
  /\ \A i \in Indices(Call("status")) :
       /\ attempt.state = "Submitted"
       /\ \E j \in Indices(Call("relay")) : j < i
       /\ \E j \in SentIndices : j < i

\* The attempt was submitted and its status has been polled.
C7_Witness ==
  /\ attempt.state = "Submitted"
  /\ Count(Call("status")) >= 1

(* ------------------------------- C8 ----------------------------------- *)

\* C8: at most one network call is outstanding in any state, the wait timer
\* is never pending while a call is outstanding, and while the program is not
\* awaiting a call none is outstanding.
C8_OneOutstandingCall ==
  /\ Cardinality(inflight) <= 1
  /\ timer => inflight = {}
  /\ \A call \in inflight : pc = call \o "_await"
  /\ pc \in {"resolved", "rejected", "exited", "wait", "sign_await"} => inflight = {}

\* A second status poll is outstanding, after a wait.
C8_Witness ==
  /\ inflight = {"status"}
  /\ Len(responses) = 1
  /\ ~timer

(* ------------------------------- C9 ----------------------------------- *)

FatalCalls == {"prepareTransaction", "sign", "buildTransaction", "relay", "status"}

LastCall == trace[CHOOSE i \in CallIndices : \A j \in CallIndices : j <= i].text

\* C9: when one of prepareTransaction, sign, buildTransaction, relay or
\* status throws, main() rejects with that error, the run exits with status
\* 1 after printing it, and the failing call is the last one issued: nothing
\* is outstanding, no wait is pending, and the attempt stays in the state it
\* had.
C9_PipelineErrorIsFatal ==
  \A i \in 1..Len(failures) :
    failures[i] \in FatalCalls =>
      /\ i = Len(failures)
      /\ pc \in {"rejected", "exited"}
      /\ err = failures[i] \o " rejected"
      /\ Halted =>
           /\ exitCode = 1
           /\ trace[Len(trace)] = Error("Error: " \o failures[i] \o " rejected")
      /\ LastCall = failures[i]
      /\ inflight = {}
      /\ ~timer
      /\ failures[i] \in {"prepareTransaction", "sign", "buildTransaction"} =>
           Count(Call("relay")) = 0
      /\ failures[i] = "relay" => (Count(Call("status")) = 0 /\ attempt.state = "Built")
      /\ failures[i] = "status" => Count(Call("status")) = Len(responses) + 1

\* A status poll threw after a pending answer, and the run has ended.
C9_Witness ==
  /\ Halted
  /\ failures = << "status" >>
  /\ lastStatus.status = "pending"

(* ------------------------------- C10 ---------------------------------- *)

\* The relayer answers every poll, never with a terminal status and never
\* with an error, in a run that reaches the loop.
PendingForever ==
  /\ <>(pc = "status")
  /\ [](~TerminalSeen)
  /\ [](pc # "rejected")
  /\ ((pc = "status_await") ~> (pc # "status_await"))

\* C10: once the relayer has answered confirmed or failed the run halts; a
\* run halts normally only after such an answer; and when the relayer answers
\* pending forever the run never halts and polls again and again.
C10_PollerTermination ==
  /\ (TerminalSeen ~> Halted)
  /\ []((pc \in {"resolved", "exited"} /\ err = "") => TerminalSeen)
  /\ PendingForever => ([](~Halted) /\ []<>(pc = "status_await"))

\* The relayer has left the transaction pending for more polls than the
\* history tells apart, and the loop waits to poll again.
C10_Witness ==
  /\ pc = "wait"
  /\ polls = MaxPolls
  /\ Len(trace) = MaxTrace
  /\ lastStatus.status = "pending"

====
